---- MODULE Spec2Model ----
(***************************************************************************)
(* A model of package fuzz (src/fuzz.go): a Fuzz session over one struct   *)
(* type, its reversible options (BindField, UnbindField,                   *)
(* UseZeroValueFallthrough), the Option / MustOption entry points and the  *)
(* Value entry point.                                                      *)
(*                                                                         *)
(* An option is a closure in the source.  A closure built by one of the    *)
(* three constructors is determined by the constructor and the arguments   *)
(* it captured, so the model represents it by that data; the nil option is *)
(* a value of its own.  The caller of the package is modelled as well: it  *)
(* remembers the last call it made and its results (last), and keeps the   *)
(* inverses returned by operations it applied one at a time (undo).        *)
(***************************************************************************)
EXTENDS Integers, Sequences, FiniteSets, TLC

VARIABLES handle, typ, fields, bindings, zeroValueFallthrough, newErr, undo, last

vars == <<handle, typ, fields, bindings, zeroValueFallthrough, newErr, undo, last>>

----------------------------------------------------------------------------
(* Bounds of the model. *)

\* longest sequence of options handed to one Option / MustOption call
MaxOpts == 3
\* most inverses the caller keeps on its undo stack
MaxUndo == 2
\* most inverses on the undo stack when the caller calls Value
MaxPending == 1
\* random sources handed to Value: stream positions 0 .. MaxSeed
MaxSeed == 1
\* size hints handed to Value: 0 .. MaxSize
MaxSize == 1
\* most output slots and most generators handed to QuickValues
MaxSlots == 2

----------------------------------------------------------------------------
(* Errors, named as the package names them; the value is the message. *)

NoErr == "nil"
errIllegal == "fuzz: illegal type for quick.Value"
errNotStruct == "fuzz: requested type is not a struct"
errUnmatchedBinding == "fuzz: unmatched binding"
errDuplBinding == "fuzz: duplicated binding"
errAbsentBinding(name) == "fuzz: absent binding " \o name
\* the runtime error of calling a nil func or a method of a nil interface
errNilDeref == "runtime error: invalid memory address or nil pointer dereference"
\* the runtime error of an index past the end of a slice
errIndex == "runtime error: index out of range"
\* the error a failing generator returns
errGen == "generator failed"
\* the string reflect panics with when a value is stored in a field of
\* another type
msgNotAssignable == "reflect.Set: value is not assignable"
\* the string an option written by the caller panics with
msgBoom == "boom"

\* What a panic carries: an error value or another value (a string here).
ErrorPayload(msg) == [isErr |-> TRUE, msg |-> msg]

StringPayload(msg) == [isErr |-> FALSE, msg |-> msg]

----------------------------------------------------------------------------
(* The types a caller may hand to New, and the fields of the struct ones. *)

TypeHandles == {"nil", "int", "Person"}

Kind(t) == IF t = "Person" THEN "struct" ELSE t

\* type Person struct { Name string; Age int }
StructFields(t) == IF t = "Person" THEN [Name |-> "string", Age |-> "int"] ELSE << >>

\* the names a caller passes to BindField / UnbindField
Names == {"Name", "Age", "Nickname"}

\* Generators: g42 always returns the int 42, gErr always returns an error,
\* gNil is the nil Generator.
Gens == {"g42", "gErr", "gNil"}

EmptyMap == << >>

Put(m, k, v) == [x \in (DOMAIN m) \cup {k} |-> IF x = k THEN v ELSE m[x]]

Delete(m, k) == [x \in (DOMAIN m) \ {k} |-> m[x]]

----------------------------------------------------------------------------
(* Options as data. *)

NilOpt == [kind |-> "nil", name |-> "", gen |-> "", on |-> FALSE]

BindFieldOpt(name, gen) == [kind |-> "BindField", name |-> name, gen |-> gen, on |-> FALSE]

UnbindFieldOpt(name) == [kind |-> "UnbindField", name |-> name, gen |-> "", on |-> FALSE]

FallthroughOpt(on) == [kind |-> "UseZeroValueFallthrough", name |-> "", gen |-> "", on |-> on]

\* an option written by the caller that panics with a string
PanicOpt == [kind |-> "panic", name |-> "", gen |-> "", on |-> FALSE]

Options ==
    {NilOpt, PanicOpt}
    \cup {BindFieldOpt(nm, g) : nm \in Names, g \in Gens}
    \cup {UnbindFieldOpt(nm) : nm \in Names}
    \cup {FallthroughOpt(b) : b \in BOOLEAN}

\* the session, as the record the option closures receive
Self ==
    [bindings |-> bindings, zeroValueFallthrough |-> zeroValueFallthrough,
     fields |-> fields, typ |-> typ]

\* the result of calling an option: the session after it, the option and the
\* error it returns, and whether it panicked instead of returning
Ret(f, prev, err) == [f |-> f, prev |-> prev, err |-> err, panic |-> FALSE]

\* a panic of the option: err holds what the panic carries
Panic(f, payload) == [f |-> f, prev |-> NilOpt, err |-> payload, panic |-> TRUE]

----------------------------------------------------------------------------
(* The three options. *)

\* the flag read after it was written
UseZeroValueFallthrough_ReadsAfterWrite(on, f) ==
    LET g == [f EXCEPT !.zeroValueFallthrough = on]
    IN  Ret(g, FallthroughOpt(g.zeroValueFallthrough), NoErr)

\* the inverse taken to be the opposite setting
UseZeroValueFallthrough_Negates(on, f) ==
    Ret([f EXCEPT !.zeroValueFallthrough = on], FallthroughOpt(~on), NoErr)

UseZeroValueFallthrough(on, f) ==
    LET prev == f.zeroValueFallthrough
    IN  Ret([f EXCEPT !.zeroValueFallthrough = on], FallthroughOpt(prev), NoErr)

\* the inverse returned is the binding itself
BindField_WrongInverse(name, gen, f) ==
    IF name \in DOMAIN f.bindings
    THEN Ret(f, NilOpt, errDuplBinding)
    ELSE IF name \notin DOMAIN f.fields
    THEN Ret(f, NilOpt, errUnmatchedBinding)
    ELSE Ret([f EXCEPT !.bindings = Put(@, name, gen)], BindFieldOpt(name, gen), NoErr)

\* no check for a present binding
BindField_Overwrites(name, gen, f) ==
    IF name \notin DOMAIN f.fields
    THEN Ret(f, NilOpt, errUnmatchedBinding)
    ELSE Ret([f EXCEPT !.bindings = Put(@, name, gen)], UnbindFieldOpt(name), NoErr)

\* no check for the field
BindField_NoFieldCheck(name, gen, f) ==
    IF name \in DOMAIN f.bindings
    THEN Ret(f, NilOpt, errDuplBinding)
    ELSE Ret([f EXCEPT !.bindings = Put(@, name, gen)], UnbindFieldOpt(name), NoErr)

\* the generator stored before the field is checked
BindField_StoresBeforeCheck(name, gen, f) ==
    IF name \in DOMAIN f.bindings
    THEN Ret(f, NilOpt, errDuplBinding)
    ELSE IF name \notin DOMAIN f.fields
    THEN Ret([f EXCEPT !.bindings = Put(@, name, gen)], NilOpt, errUnmatchedBinding)
    ELSE Ret([f EXCEPT !.bindings = Put(@, name, gen)], UnbindFieldOpt(name), NoErr)

BindField(name, gen, f) ==
    IF name \in DOMAIN f.bindings
    THEN Ret(f, NilOpt, errDuplBinding)
    ELSE IF name \notin DOMAIN f.fields
    THEN Ret(f, NilOpt, errUnmatchedBinding)
    ELSE Ret([f EXCEPT !.bindings = Put(@, name, gen)], UnbindFieldOpt(name), NoErr)

\* an absent binding is no error
UnbindField_IgnoresAbsent(name, f) ==
    IF name \notin DOMAIN f.bindings
    THEN Ret(f, BindFieldOpt(name, "gNil"), NoErr)
    ELSE LET gen == f.bindings[name]
         IN  Ret([f EXCEPT !.bindings = Delete(@, name)], BindFieldOpt(name, gen), NoErr)

\* the generator looked up after the delete: the nil Generator
UnbindField_LosesGenerator(name, f) ==
    IF name \notin DOMAIN f.bindings
    THEN Ret(f, NilOpt, errAbsentBinding(name))
    ELSE Ret([f EXCEPT !.bindings = Delete(@, name)], BindFieldOpt(name, "gNil"), NoErr)

UnbindField(name, f) ==
    IF name \notin DOMAIN f.bindings
    THEN Ret(f, NilOpt, errAbsentBinding(name))
    ELSE LET gen == f.bindings[name]
         IN  Ret([f EXCEPT !.bindings = Delete(@, name)], BindFieldOpt(name, gen), NoErr)

\* opt(f): calling a nil func panics with a runtime error
Call(opt, f) ==
    CASE opt.kind = "UseZeroValueFallthrough" -> UseZeroValueFallthrough(opt.on, f)
      [] opt.kind = "BindField" -> BindField(opt.name, opt.gen, f)
      [] opt.kind = "UnbindField" -> UnbindField(opt.name, f)
      [] opt.kind = "panic" -> Panic(f, StringPayload(msgBoom))
      [] OTHER -> Panic(f, ErrorPayload(errNilDeref))

----------------------------------------------------------------------------
(* Fuzz.Option: the loop over opts, from its i-th element on, with the     *)
(* named results prev and err as they stand.  A panic of opt(f) leaves     *)
(* prev as it was and the deferred recover sets err.                       *)

\* the deferred function of Option: err after a panic was recovered
OptionRecover(payload) ==
    IF payload.isErr THEN payload.msg ELSE "fuzz: option error " \o payload.msg

\* no return on an error: the loop goes on
RECURSIVE OptionLoop_NoShortCircuit(_, _, _, _, _)
OptionLoop_NoShortCircuit(opts, i, f, prev, err) ==
    IF i > Len(opts)
    THEN [f |-> f, prev |-> prev, err |-> err]
    ELSE LET r == Call(opts[i], f)
         IN  IF r.panic
             THEN [f |-> r.f, prev |-> prev, err |-> OptionRecover(r.err)]
             ELSE OptionLoop_NoShortCircuit(opts, i + 1, r.f, r.prev, r.err)

\* prev is set by the first operation only
RECURSIVE OptionLoop_KeepsFirstInverse(_, _, _, _, _)
OptionLoop_KeepsFirstInverse(opts, i, f, prev, err) ==
    IF i > Len(opts)
    THEN [f |-> f, prev |-> prev, err |-> err]
    ELSE LET r == Call(opts[i], f)
             p == IF i = 1 THEN r.prev ELSE prev
         IN  IF r.panic
             THEN [f |-> r.f, prev |-> prev, err |-> OptionRecover(r.err)]
             ELSE IF r.err # NoErr
             THEN [f |-> r.f, prev |-> r.prev, err |-> r.err]
             ELSE OptionLoop_KeepsFirstInverse(opts, i + 1, r.f, p, r.err)

RECURSIVE OptionLoop(_, _, _, _, _)
OptionLoop(opts, i, f, prev, err) ==
    IF i > Len(opts)
    THEN [f |-> f, prev |-> prev, err |-> err]
    ELSE LET r == Call(opts[i], f)
         IN  IF r.panic
             THEN [f |-> r.f, prev |-> prev, err |-> OptionRecover(r.err)]
             ELSE IF r.err # NoErr
             THEN [f |-> r.f, prev |-> r.prev, err |-> r.err]
             ELSE OptionLoop(opts, i + 1, r.f, r.prev, r.err)

FuzzOption(opts, f) == OptionLoop(opts, 1, f, NilOpt, NoErr)

----------------------------------------------------------------------------
(* Fuzz.Value.  A value is recorded with its type and with where it came   *)
(* from: the zero value, a bound generator, or quick.Value reading the     *)
(* random source at a position of its stream.                              *)

Val(t, src, n) == [typ |-> t, src |-> src, val |-> n]

\* reflect.New(f.typ).Elem(): every field at its zero value
Zero(f) == [name \in DOMAIN f.fields |-> Val(f.fields[name], "zero", 0)]

\* quick.Value(t, r) for the field types of the model: always ok, the value
\* is a function of the type and of the stream position r it starts at
QuickValue(t, r) == Val(t, "quick", r)

\* draws quick.Value takes from the source: one for an int, a length and the
\* characters for a string
QuickDraws(t) == IF t = "string" THEN 2 ELSE 1

\* the orders in which range f.fields may visit the fields
Orders(S) ==
    {o \in [1..Cardinality(S) -> S] : \A i, j \in 1..Cardinality(S) : o[i] = o[j] => i = j}

\* what the body of the loop does for one field: the record and the source
\* after it, whether Value stops there, and with what error or panic
Step(v, r) == [v |-> v, r |-> r, stop |-> FALSE, panic |-> FALSE, err |-> NoErr]

Stop(v, r, err) == [v |-> v, r |-> r, stop |-> TRUE, panic |-> FALSE, err |-> err]

Panics(v, r, payload) == [v |-> v, r |-> r, stop |-> TRUE, panic |-> TRUE, err |-> payload]

\* the error of the generator is dropped and the loop goes on
Generated_IgnoresError(gen, name, f, v, r) ==
    CASE gen = "gNil" -> Panics(v, r, ErrorPayload(errNilDeref))
      [] gen = "gErr" -> Step(v, r)
      [] OTHER ->
           IF f.fields[name] = "int"
           THEN Step([v EXCEPT ![name] = Val("int", "gen", 42)], r)
           ELSE Panics(v, r, StringPayload(msgNotAssignable))

\* gen.Generate(r, n) of the generators of the model, and v.FieldByName(name).Set(elem)
Generated(gen, name, f, v, r) ==
    CASE gen = "gNil" -> Panics(v, r, ErrorPayload(errNilDeref))
      [] gen = "gErr" -> Stop(v, r, errGen)
      [] OTHER ->
           IF f.fields[name] = "int"
           THEN Step([v EXCEPT ![name] = Val("int", "gen", 42)], r)
           ELSE Panics(v, r, StringPayload(msgNotAssignable))

\* the fallthrough case leaves the loop instead of going on with it
FieldStep_FallthroughStops(name, f, v, r) ==
    IF name \in DOMAIN f.bindings
    THEN Generated(f.bindings[name], name, f, v, r)
    ELSE IF f.zeroValueFallthrough
    THEN Stop(v, r, NoErr)
    ELSE LET t == f.fields[name]
         IN  Step([v EXCEPT ![name] = QuickValue(t, r)], r + QuickDraws(t))

\* the fallthrough flag tested before the binding
FieldStep_FlagFirst(name, f, v, r) ==
    IF f.zeroValueFallthrough
    THEN Step(v, r)
    ELSE IF name \in DOMAIN f.bindings
    THEN Generated(f.bindings[name], name, f, v, r)
    ELSE LET t == f.fields[name]
         IN  Step([v EXCEPT ![name] = QuickValue(t, r)], r + QuickDraws(t))

\* no fallthrough case: an unbound field always gets a random value
FieldStep_NoFallthrough(name, f, v, r) ==
    IF name \in DOMAIN f.bindings
    THEN Generated(f.bindings[name], name, f, v, r)
    ELSE LET t == f.fields[name]
         IN  Step([v EXCEPT ![name] = QuickValue(t, r)], r + QuickDraws(t))

FieldStep(name, f, v, r) ==
    IF name \in DOMAIN f.bindings
    THEN Generated(f.bindings[name], name, f, v, r)
    ELSE IF f.zeroValueFallthrough
    THEN Step(v, r)
    ELSE LET t == f.fields[name]
         IN  Step([v EXCEPT ![name] = QuickValue(t, r)], r + QuickDraws(t))

\* the loop over the fields in the order the map yields them; visits are the
\* fields the loop reached
RECURSIVE ValueLoop(_, _, _, _, _)
ValueLoop(order, i, f, v, r) ==
    IF i > Len(order)
    THEN [v |-> v, err |-> NoErr, r |-> r, visits |-> order, panic |-> FALSE]
    ELSE LET s == FieldStep(order[i], f, v, r)
         IN  IF s.stop
             THEN [v |-> s.v, err |-> s.err, r |-> s.r,
                   visits |-> SubSeq(order, 1, i), panic |-> s.panic]
             ELSE ValueLoop(order, i + 1, f, s.v, s.r)

\* no else branch: a panic that carries no error leaves err nil
ValueRecover_DropsNonError(payload) ==
    IF payload.isErr THEN payload.msg ELSE NoErr

\* the deferred function of Value: err after a panic was recovered
ValueRecover(payload) ==
    IF payload.isErr THEN payload.msg ELSE "fuzz: " \o payload.msg

\* the bindings of the fields the loop reached are taken out of the registry
FuzzValue_UnbindsVisited(order, r, n, f) ==
    LET res == ValueLoop(order, 1, f, Zero(f), r)
        seen == {res.visits[i] : i \in 1..Len(res.visits)}
    IN  [f |-> [f EXCEPT !.bindings = [x \in (DOMAIN @) \ seen |-> @[x]]],
         v |-> res.v, r |-> res.r, visits |-> res.visits,
         err |-> IF res.panic THEN ValueRecover(res.err) ELSE res.err]

\* the generators of the model do not read the size hint n
FuzzValue(order, r, n, f) ==
    LET res == ValueLoop(order, 1, f, Zero(f), r)
    IN  [f |-> f, v |-> res.v, r |-> res.r, visits |-> res.visits,
         err |-> IF res.panic THEN ValueRecover(res.err) ELSE res.err]

----------------------------------------------------------------------------
(* New *)

\* no test of the kind: any type that is not nil gets a session
New_SkipsKindCheck(t) ==
    IF t = "nil"
    THEN [ok |-> FALSE, err |-> errNotStruct, typ |-> "nil", fields |-> EmptyMap]
    ELSE [ok |-> TRUE, err |-> NoErr, typ |-> t, fields |-> StructFields(t)]

New(t) ==
    IF t = "nil" \/ Kind(t) # "struct"
    THEN [ok |-> FALSE, err |-> errNotStruct, typ |-> "nil", fields |-> EmptyMap]
    ELSE [ok |-> TRUE, err |-> NoErr, typ |-> t, fields |-> StructFields(t)]

----------------------------------------------------------------------------
(* QuickValues(g...): the function it returns, applied to the slots v.  A  *)
(* slot is unset until the loop assigns it; a generator that returns an    *)
(* error has the invalid reflect.Value assigned before the panic.          *)

Unset == Val("", "unset", 0)

Invalid == Val("", "invalid", 0)

\* the test of the lengths compares len(v) with itself
Incongruent(g, v) == Len(v) # Len(v)

RECURSIVE QuickFill(_, _, _)
QuickFill(g, i, v) ==
    IF i > Len(g)
    THEN [v |-> v, panic |-> FALSE, err |-> NoErr]
    ELSE IF g[i] = "gNil"
    THEN [v |-> v, panic |-> TRUE, err |-> errNilDeref]
    ELSE IF i > Len(v)
    THEN [v |-> v, panic |-> TRUE, err |-> errIndex]
    ELSE IF g[i] = "gErr"
    THEN [v |-> [v EXCEPT ![i] = Invalid], panic |-> TRUE, err |-> "fuzz: " \o errGen]
    ELSE QuickFill(g, i + 1, [v EXCEPT ![i] = Val("int", "gen", 42)])

QuickValues(g, v) ==
    IF Incongruent(g, v)
    THEN [v |-> v, panic |-> TRUE,
          err |-> "fuzz: incongruent Values() and Generator... signature"]
    ELSE QuickFill(g, 1, v)

----------------------------------------------------------------------------
(* What the caller remembers of its last call.  Of the operations of an    *)
(* Option call it keeps an account made with the operations themselves,    *)
(* one call of an operation after the other, not with Option's loop.       *)

NoValue == << >>

\* no operation: the call had none, or none follows
NoOp == [kind |-> "none", name |-> "", gen |-> "", on |-> FALSE]

\* the session after the first k operations of opts, each called in turn
RECURSIVE After(_, _, _)
After(opts, k, f) == IF k = 0 THEN f ELSE Call(opts[k], After(opts, k - 1, f)).f

\* the k-th operation of opts returns without an error
Succeeds(opts, k, f) ==
    LET r == Call(opts[k], After(opts, k - 1, f))
    IN  ~r.panic /\ r.err = NoErr

\* the index of the first operation that fails, 0 when none does
FirstFailure(opts, f) ==
    IF \A k \in 1..Len(opts) : Succeeds(opts, k, f)
    THEN 0
    ELSE CHOOSE k \in 1..Len(opts) :
             /\ ~Succeeds(opts, k, f)
             /\ \A j \in 1..(k - 1) : Succeeds(opts, j, f)

\* n: the number of operations; failed: FirstFailure; op: the failing
\* operation, or the last one when none fails; before: the session op was
\* called on; inv: the inverse returned by the operation before op;
\* next: the operation after the failing one
Account(opts, f) ==
    LET n == Len(opts)
        failed == FirstFailure(opts, f)
        a == IF failed = 0 THEN n ELSE failed
    IN  [n |-> n, failed |-> failed,
         op |-> IF a = 0 THEN NoOp ELSE opts[a],
         before |-> IF a = 0 THEN f ELSE After(opts, a - 1, f),
         inv |-> IF a < 2 THEN NilOpt ELSE Call(opts[a - 1], After(opts, a - 2, f)).prev,
         next |-> IF failed # 0 /\ failed < n THEN opts[failed + 1] ELSE NoOp]

Last(call, opts, pre, prev, err) ==
    LET acc == Account(opts, pre)
    IN  [call |-> call, pre |-> pre, prev |-> prev, err |-> err, panicked |-> FALSE,
         n |-> acc.n, failed |-> acc.failed, op |-> acc.op, before |-> acc.before,
         inv |-> acc.inv, next |-> acc.next,
         undoes |-> NoOp, expect |-> pre, undone |-> 0,
         v |-> NoValue, order |-> << >>, seed |-> 0, size |-> 0,
         visits |-> << >>, rand |-> 0, gens |-> << >>, slots |-> << >>]

OptSeqs == UNION {[1..n -> Options] : n \in 0..MaxOpts}

\* the session New(t) returns, with the fields the model keeps of it
Session(s) ==
    [bindings |-> EmptyMap, zeroValueFallthrough |-> FALSE, fields |-> s.fields, typ |-> s.typ]

Init ==
    \E t \in TypeHandles :
        LET s == New(t)
        IN  /\ handle = t
            /\ typ = s.typ
            /\ fields = s.fields
            /\ bindings = EmptyMap
            /\ zeroValueFallthrough = FALSE
            /\ newErr = s.err
            /\ undo = << >>
            /\ last = Last("New", << >>, Session(s), NilOpt, s.err)

\* The calls the caller makes.  Its first call after New configures the
\* session with any number of operations; from then on it applies one
\* operation at a time.
Arguments == IF last.call = "New" THEN OptSeqs ELSE {<<o>> : o \in Options}

Store(f) ==
    /\ bindings' = f.bindings
    /\ zeroValueFallthrough' = f.zeroValueFallthrough
    /\ UNCHANGED <<handle, typ, fields, newErr>>

\* f.Option(opts...).  The caller pushes the inverse of an operation applied
\* alone that succeeded, with the state it was applied to, while its undo
\* stack has room.
Option ==
    /\ newErr = NoErr
    /\ \E opts \in Arguments :
         LET r == FuzzOption(opts, Self)
             push == Len(opts) = 1 /\ r.err = NoErr
         IN  /\ push => Len(undo) < MaxUndo
             /\ Store(r.f)
             /\ undo' = IF push
                        THEN Append(undo, [pre |-> Self, op |-> opts[1], inv |-> r.prev])
                        ELSE undo
             /\ last' = Last("Option", opts, Self, r.prev, r.err)

\* f.MustOption(opts...): panics with the error of Option, and then returns
\* nothing.  Setup code calls it, which keeps no inverse and has none pending.
MustOption ==
    /\ newErr = NoErr
    /\ undo = << >>
    /\ \E opts \in Arguments :
         LET r == FuzzOption(opts, Self)
         IN  /\ Store(r.f)
             /\ UNCHANGED undo
             /\ last' = [Last("MustOption", opts, Self,
                              IF r.err # NoErr THEN NilOpt ELSE r.prev, r.err)
                           EXCEPT !.panicked = (r.err # NoErr)]

\* f.Option(inv) for the inverse on top of the caller's undo stack
Revert ==
    /\ newErr = NoErr
    /\ undo # << >>
    /\ LET top == undo[Len(undo)]
           r == FuzzOption(<<top.inv>>, Self)
       IN  /\ Store(r.f)
           /\ undo' = SubSeq(undo, 1, Len(undo) - 1)
           /\ last' = [Last("Revert", <<top.inv>>, Self, r.prev, r.err)
                         EXCEPT !.undoes = top.op, !.expect = top.pre,
                                !.undone = IF last.call = "Revert" THEN last.undone + 1 ELSE 1]

\* f.Value(r, n), called with at most MaxPending inverses on the undo stack
Value ==
    /\ newErr = NoErr
    /\ Len(undo) <= MaxPending
    /\ \E order \in Orders(DOMAIN fields), r \in 0..MaxSeed, n \in 0..MaxSize :
         LET res == FuzzValue(order, r, n, Self)
         IN  /\ Store(res.f)
             /\ UNCHANGED undo
             /\ last' = [Last("Value", << >>, Self, NilOpt, res.err)
                           EXCEPT !.v = res.v, !.order = order, !.seed = r, !.size = n,
                                  !.visits = res.visits, !.rand = res.r]

\* QuickValues(g...)(v, r), on slots that are all unset.  It reads and writes
\* nothing of the session; the caller calls it first thing, also when New
\* gave it no session, so the record of the call is the one New left, with
\* the outcome of QuickValues put in.
CallQuickValues ==
    /\ last.call = "New"
    /\ \E nv \in 0..MaxSlots, g \in UNION {[1..k -> Gens] : k \in 0..MaxSlots} :
         LET res == QuickValues(g, [i \in 1..nv |-> Unset])
         IN  last' = [last EXCEPT !.call = "QuickValues", !.err = res.err,
                                     !.panicked = res.panic, !.gens = g, !.slots = res.v]
    /\ UNCHANGED <<handle, typ, fields, bindings, zeroValueFallthrough, newErr, undo>>

Next == Option \/ MustOption \/ Revert \/ Value \/ CallQuickValues

Spec == Init /\ [][Next]_vars

----------------------------------------------------------------------------
(* The claims. *)

\* the last call applied options to the session
OptionCalled == last.call \in {"Option", "MustOption", "Revert"}

\* C1 - Binding round-trip: BindField(F, G) applied through Option to a state
\* with F unbound, followed by the option it returned, leaves F unbound and
\* the session as it was before the bind.
C1_BindRoundTrip ==
    (last.call = "Revert" /\ last.undoes.kind = "BindField") =>
        /\ last.undoes.name \notin DOMAIN last.expect.bindings
        /\ last.err = NoErr
        /\ last.undoes.name \notin DOMAIN bindings
        /\ Self = last.expect

\* a bind of one field was reverted while the other field stayed bound
C1_Witness ==
    /\ last.call = "Revert"
    /\ last.undoes.kind = "BindField"
    /\ last.undoes.name \in DOMAIN last.pre.bindings
    /\ last.err = NoErr
    /\ bindings # EmptyMap

\* C2 - Undo stack: operations applied one at a time that all succeeded are
\* undone by their inverses in reverse order: every inverse succeeds and
\* restores the state its operation was applied to, down to the original
\* state, and what is left of the stack still leads from the state it
\* recorded to the current one.
C2_UndoStack ==
    /\ last.call = "Revert" => (last.err = NoErr /\ Self = last.expect)
    /\ \A i \in 1..Len(undo) :
           Call(undo[i].op, undo[i].pre).f
               = IF i = Len(undo) THEN Self ELSE undo[i + 1].pre

\* two or more operations were undone in a row and nothing is left to undo
C2_Witness ==
    /\ last.call = "Revert"
    /\ last.undone >= 2
    /\ undo = << >>
    /\ last.pre # Self

\* C3 - the claim as stated: when an operation of an Option call fails by
\* returning an error after others succeeded, Option returns the error and
\* the inverse of the last operation that succeeded.
C3_InverseOfLastSuccess ==
    (last.call = "Option" /\ last.failed >= 2 /\ last.op.kind # "nil") =>
        (last.err # NoErr /\ last.prev = last.inv)

\* C4 - Short-circuit without rollback: when the k-th operation of a call
\* fails, the session is left as the first k-1 operations made it; nothing
\* after the k-th is applied and nothing before it is rolled back.
C4_ShortCircuit ==
    (last.call \in {"Option", "MustOption"} /\ last.failed # 0) =>
        (last.err # NoErr /\ Self = last.before)

\* the second of three operations failed, the first one changed the session
\* and the third one would have changed it too
C4_Witness ==
    /\ last.call = "Option"
    /\ last.n = 3
    /\ last.failed = 2
    /\ Self # last.pre
    /\ Call(last.next, Self).f # Self

\* C5 - No duplicate bindings: BindField(F, G2) applied when F is bound
\* fails with the duplicated-binding error and leaves the registry as it
\* was, F bound to the same generator.
C5_NoDuplicateBinding ==
    (OptionCalled /\ last.op.kind = "BindField"
        /\ last.op.name \in DOMAIN last.before.bindings) =>
        /\ last.failed # 0
        /\ last.err = errDuplBinding
        /\ bindings = last.before.bindings
        /\ bindings[last.op.name] = last.before.bindings[last.op.name]

\* a bind of another generator to a bound field was refused
C5_Witness ==
    /\ last.call = "Option"
    /\ last.op.kind = "BindField"
    /\ last.op.name \in DOMAIN last.before.bindings
    /\ last.before.bindings[last.op.name] # last.op.gen
    /\ last.err = errDuplBinding

\* C6 - No phantom bindings: BindField(N, G) for a name N that is no field
\* of the struct fails with the unmatched-binding error and leaves the
\* registry as it was, without an entry for N.
C6_NoPhantomBinding ==
    (OptionCalled /\ last.op.kind = "BindField" /\ last.op.name \notin DOMAIN fields) =>
        /\ last.failed # 0
        /\ last.err = errUnmatchedBinding
        /\ bindings = last.before.bindings
        /\ last.op.name \notin DOMAIN bindings

\* a bind of Nickname was refused by a session that has bindings
C6_Witness ==
    /\ last.call = "Option"
    /\ last.op.kind = "BindField"
    /\ last.op.name = "Nickname"
    /\ last.err = errUnmatchedBinding
    /\ bindings # EmptyMap

\* C7 - Registry invariant: the bound names are field names of the struct,
\* in every state reached from New.
C7_RegistryInvariant == DOMAIN bindings \subseteq DOMAIN fields

\* a returned inverse bound a field again and every field is bound
C7_Witness ==
    /\ last.call = "Revert"
    /\ last.undoes.kind = "UnbindField"
    /\ last.err = NoErr
    /\ DOMAIN bindings = DOMAIN fields
    /\ fields # EmptyMap

\* C8 - Unbind requires presence: UnbindField(F) applied when F is not bound
\* fails with the absent-binding error of F.
C8_UnbindAbsent ==
    (OptionCalled /\ last.op.kind = "UnbindField"
        /\ last.op.name \notin DOMAIN last.before.bindings) =>
        /\ last.failed # 0
        /\ last.err = errAbsentBinding(last.op.name)
        /\ Self = last.before

\* a field was bound, unbound, and its second unbind was refused
C8_Witness ==
    /\ last.call = "Option"
    /\ last.failed = 3
    /\ last.op.kind = "UnbindField"
    /\ last.inv.kind = "BindField"
    /\ last.inv.name = last.op.name
    /\ last.err = errAbsentBinding(last.op.name)

\* C9 - Unbind round-trip: UnbindField(F) applied when F is bound to G
\* removes that mapping only and returns BindField(F, G); applying the
\* returned option binds F to G again and restores the registry.
C9_UnbindRoundTrip ==
    /\ (OptionCalled /\ last.op.kind = "UnbindField"
           /\ last.op.name \in DOMAIN last.before.bindings) =>
           /\ last.err = NoErr
           /\ DOMAIN bindings = (DOMAIN last.before.bindings) \ {last.op.name}
           /\ \A x \in DOMAIN bindings : bindings[x] = last.before.bindings[x]
           /\ last.prev.kind = "BindField"
           /\ last.prev.name = last.op.name
           /\ last.prev.gen = last.before.bindings[last.op.name]
    /\ (last.call = "Revert" /\ last.undoes.kind = "UnbindField") =>
           /\ last.err = NoErr
           /\ last.undoes.name \in DOMAIN bindings
           /\ bindings = last.expect.bindings
           /\ bindings[last.undoes.name] = last.expect.bindings[last.undoes.name]

\* an unbind was reverted in a registry that binds the two fields to
\* different generators
C9_Witness ==
    /\ last.call = "Revert"
    /\ last.undoes.kind = "UnbindField"
    /\ last.err = NoErr
    /\ DOMAIN bindings = {"Name", "Age"}
    /\ bindings["Name"] # bindings["Age"]

\* C10 - Fallthrough flag round-trip: UseZeroValueFallthrough(on) succeeds
\* from either value of the flag, sets the flag to on and returns the option
\* that sets the prior value; applying that option restores the prior value;
\* neither step touches the registry.
C10_FallthroughRoundTrip ==
    /\ (OptionCalled /\ last.op.kind = "UseZeroValueFallthrough") =>
           /\ last.failed = 0
           /\ last.err = NoErr
           /\ zeroValueFallthrough = last.op.on
           /\ last.prev.kind = "UseZeroValueFallthrough"
           /\ last.prev.on = last.before.zeroValueFallthrough
           /\ bindings = last.before.bindings
    /\ (last.call = "Revert" /\ last.undoes.kind = "UseZeroValueFallthrough") =>
           /\ last.err = NoErr
           /\ zeroValueFallthrough = last.expect.zeroValueFallthrough
           /\ bindings = last.pre.bindings
           /\ bindings = last.expect.bindings

\* the flag was on, was set to on again, and the inverse left it on, in a
\* session that has bindings
C10_Witness ==
    /\ last.call = "Revert"
    /\ last.undoes.kind = "UseZeroValueFallthrough"
    /\ last.undoes.on
    /\ zeroValueFallthrough
    /\ bindings # EmptyMap

\* C11 - Production coverage: a successful Value call visits every field
\* once, and each field holds the output of its bound generator, or the zero
\* value when it is unbound and the flag is on, or the value of quick.Value
\* when it is unbound and the flag is off.
C11_ProductionCoverage ==
    (last.call = "Value" /\ last.err = NoErr) =>
        /\ Len(last.visits) = Cardinality(DOMAIN fields)
        /\ \A name \in DOMAIN fields :
               /\ Cardinality({i \in 1..Len(last.visits) : last.visits[i] = name}) = 1
               /\ last.v[name].src =
                      IF name \in DOMAIN last.pre.bindings THEN "gen"
                      ELSE IF last.pre.zeroValueFallthrough THEN "zero"
                      ELSE "quick"

\* a successful call with the flag on that met an unbound field first and a
\* bound one after it
C11_Witness ==
    /\ last.call = "Value"
    /\ last.err = NoErr
    /\ last.pre.zeroValueFallthrough
    /\ last.order = <<"Name", "Age">>
    /\ DOMAIN last.pre.bindings = {"Age"}

\* C12 - Bound field precedence: a successful Value call sets a bound field
\* to the output of its generator, also with the fallthrough flag on; Age
\* bound to the generator of 42 is 42 for every random source.
C12_BoundFieldPrecedence ==
    (last.call = "Value" /\ last.err = NoErr) =>
        \A name \in DOMAIN last.pre.bindings :
            last.pre.bindings[name] = "g42" => last.v[name] = Val("int", "gen", 42)

\* Age is bound to the generator of 42, the flag is on, the source is not
\* the first one
C12_Witness ==
    /\ last.call = "Value"
    /\ last.err = NoErr
    /\ last.pre.zeroValueFallthrough
    /\ "Age" \in DOMAIN last.pre.bindings
    /\ last.seed > 0
    /\ last.v["Age"].val = 42

\* the field makes Value stop when the loop reaches it
Aborts(name, f) ==
    /\ name \in DOMAIN f.bindings
    /\ f.bindings[name] \in {"gErr", "gNil"} \/ f.fields[name] # "int"

\* the draws quick.Value takes for the first k fields of order
RECURSIVE DrawsOf(_, _, _)
DrawsOf(order, k, f) ==
    IF k = 0 THEN 0
    ELSE DrawsOf(order, k - 1, f)
         + IF order[k] \notin DOMAIN f.bindings /\ ~f.zeroValueFallthrough
           THEN QuickDraws(f.fields[order[k]])
           ELSE 0

\* C14 - Generator failure aborts production: when the generator of a
\* visited field returns an error, Value returns that error, the loop ends
\* at that field, and the fields after it are left at their zero values
\* without a draw from the random source.
C14_GeneratorFailureAborts ==
    last.call = "Value" =>
        \A i \in 1..Len(last.order) :
            (/\ last.order[i] \in DOMAIN last.pre.bindings
             /\ last.pre.bindings[last.order[i]] = "gErr"
             /\ \A j \in 1..(i - 1) : ~Aborts(last.order[j], last.pre)) =>
                /\ last.err = errGen
                /\ last.visits = SubSeq(last.order, 1, i)
                /\ \A j \in (i + 1)..Len(last.order) :
                       last.v[last.order[j]].src = "zero"
                /\ last.rand = last.seed + DrawsOf(last.order, i - 1, last.pre)

\* the first field visited has the failing generator and the other field is
\* unbound with the flag off
C14_Witness ==
    /\ last.call = "Value"
    /\ last.err = errGen
    /\ Len(last.visits) = 1
    /\ ~last.pre.zeroValueFallthrough
    /\ last.order[2] \notin DOMAIN last.pre.bindings

\* C16 - Zero-value fallthrough scenario: with the flag on and no binding,
\* Value succeeds with the all-zero Person and takes nothing from the random
\* source, for every source and size hint.
C16_ZeroValueScenario ==
    (last.call = "Value" /\ last.pre.zeroValueFallthrough
        /\ last.pre.bindings = EmptyMap) =>
        /\ last.err = NoErr
        /\ last.v = [Name |-> Val("string", "zero", 0), Age |-> Val("int", "zero", 0)]
        /\ last.rand = last.seed

\* such a call with a source and a size hint that are not the first ones
C16_Witness ==
    /\ last.call = "Value"
    /\ last.pre.zeroValueFallthrough
    /\ last.pre.bindings = EmptyMap
    /\ last.seed > 0
    /\ last.size > 0
    /\ last.err = NoErr

\* C13 - the claim as stated: with no binding and the flag off, two Value
\* calls in a row on sources in the same state return the same record,
\* whatever the order in which each call visits the fields.
C13_Determinism ==
    [][(/\ last.call = "Value"
        /\ last'.call = "Value"
        /\ last'.seed = last.seed
        /\ last.pre.bindings = EmptyMap
        /\ last'.pre.bindings = EmptyMap
        /\ ~last.pre.zeroValueFallthrough
        /\ ~last'.pre.zeroValueFallthrough
        /\ Cardinality(DOMAIN fields) >= 2)
       => (last'.err = last.err /\ last'.v = last.v)]_vars

\* the field panics when the loop reaches it: a nil generator, or a value
\* that cannot be stored in the field
PanicsAt(name, f) ==
    /\ name \in DOMAIN f.bindings
    /\ \/ f.bindings[name] = "gNil"
       \/ f.bindings[name] = "g42" /\ f.fields[name] # "int"

\* C15 - Failure recovery at the boundary: when an option panics inside
\* Option (the nil option, or an option that panics with a string) or the
\* loop of Value panics (a nil generator, a value the field cannot hold),
\* the call returns with an error that is not nil.
C15_FailureRecovery ==
    /\ (last.call \in {"Option", "Revert"} /\ last.op.kind \in {"nil", "panic"}) =>
           /\ ~last.panicked
           /\ last.err # NoErr
           /\ last.err = IF last.op.kind = "nil" THEN errNilDeref
                         ELSE "fuzz: option error " \o msgBoom
    /\ last.call = "Value" =>
           \A i \in 1..Len(last.order) :
               (/\ PanicsAt(last.order[i], last.pre)
                /\ \A j \in 1..(i - 1) : ~Aborts(last.order[j], last.pre)) =>
                   (~last.panicked /\ last.err # NoErr)

\* Value recovered from the panic of storing an int in Name
C15_Witness ==
    /\ last.call = "Value"
    /\ "Name" \in DOMAIN last.pre.bindings
    /\ last.pre.bindings["Name"] = "g42"
    /\ last.order[1] = "Name"
    /\ last.err = "fuzz: " \o msgNotAssignable

\* C19 - Most-recent inverse on success: an Option call with one or more
\* operations that all succeed returns nil as error and the inverse of the
\* last operation; that inverse, applied to the session, succeeds and gives
\* the state the last operation was applied to.
C19_MostRecentInverse ==
    (last.call = "Option" /\ last.n >= 1 /\ last.failed = 0) =>
        /\ last.err = NoErr
        /\ last.prev = Call(last.op, last.before).prev
        /\ LET u == Call(last.prev, Self)
           IN  ~u.panic /\ u.err = NoErr /\ u.f = last.before

\* three operations succeeded, the last one an unbind, and each of the last
\* two changed the session
C19_Witness ==
    /\ last.call = "Option"
    /\ last.n = 3
    /\ last.failed = 0
    /\ last.op.kind = "UnbindField"
    /\ last.before # last.pre
    /\ last.before # Self

\* C20 - Value is read-only on the session: after a Value call, whatever
\* its outcome, the registry and the flag are what they were before it, and
\* the inverse the caller holds still undoes its operation.
C20_ValueReadOnly ==
    last.call = "Value" =>
        /\ bindings = last.pre.bindings
        /\ zeroValueFallthrough = last.pre.zeroValueFallthrough
        /\ undo # << >> =>
               LET top == undo[Len(undo)]
                   u == Call(top.inv, Self)
               IN  ~u.panic /\ u.err = NoErr /\ u.f = top.pre

\* a Value call that recovered from a panic, between an operation and its
\* inverse
C20_Witness ==
    /\ last.call = "Value"
    /\ last.err = errNilDeref
    /\ undo # << >>
    /\ bindings # EmptyMap

\* C17 - the claim as stated: the function QuickValues returns panics and
\* writes no slot whenever the number of slots differs from the number of
\* generators.
C17_LengthCheck ==
    (last.call = "QuickValues" /\ Len(last.slots) # Len(last.gens)) =>
        /\ last.panicked
        /\ \A i \in 1..Len(last.slots) : last.slots[i] = Unset

\* C18 - Session construction: New of a nil type or of a type that is no
\* struct returns the not-a-struct error and no session; New of Person
\* returns a session with no binding, the flag off and the fields Name and
\* Age with their types, and the fields stay so in every later state.
C18_SessionConstruction ==
    /\ handle # "Person" =>
           /\ newErr = errNotStruct
           /\ typ = "nil"
           /\ fields = EmptyMap
           /\ last.call \in {"New", "QuickValues"}
    /\ handle = "Person" =>
           /\ newErr = NoErr
           /\ typ = "Person"
           /\ DOMAIN fields = {"Name", "Age"}
           /\ fields["Name"] = "string"
           /\ fields["Age"] = "int"
    /\ last.call = "New" => (bindings = EmptyMap /\ ~zeroValueFallthrough)

\* the session of Person after operations were applied and undone, with a
\* binding and the flag on
C18_Witness ==
    /\ handle = "Person"
    /\ last.call = "Revert"
    /\ bindings # EmptyMap
    /\ zeroValueFallthrough
    /\ DOMAIN fields = {"Name", "Age"}

====
